---- MODULE Spec2Model ----
(***************************************************************************)
(* geolocation_utils: Coordinate, CoordinateBoundaries and the helpers of  *)
(* utils.rs.                                                               *)
(*                                                                         *)
(* Three state machines share this module, each with its own variables:    *)
(*   SpecNew    - Coordinate::new, with the loop of wrap_to_bounds taken   *)
(*                one iteration per step;                                  *)
(*   SpecDist   - Coordinate::get_distance_from and Coordinate::in_radius; *)
(*   SpecBounds - CoordinateBoundaries::new, set_coords and set_distance.  *)
(*                                                                         *)
(* Numbers.  The program computes in f64.  Angles handed to wrap_to_bounds *)
(* are whole degrees held in a binary floating-point format with MantBits  *)
(* significand bits and round-to-nearest-even (f64 has 53; MantBits is     *)
(* smaller so that the values at which rounding starts fit 32-bit         *)
(* integers).  The trigonometry of get_distance_from and calculate is      *)
(* fixed-point: a sine table per whole degree, scaled by SinScale.         *)
(* NaN and the infinities are not modelled.                                *)
(***************************************************************************)
EXTENDS Integers, Sequences, FiniteSets, TLC

VARIABLES
    \* Coordinate::new / wrap_to_bounds
    pc,             \* "start", "wrap_lat", "wrap_lon", "done"
    lat, lon,       \* the arguments of Coordinate::new
    neg_pos_bound,  \* the bound of the running wrap_to_bounds call
    wrapped,        \* the local `wrapped` of the running wrap_to_bounds call
    coord,          \* the Coordinate under construction / returned
    \* Coordinate::get_distance_from / Coordinate::in_radius
    op,             \* "none", "get_distance_from", "in_radius"
    self, other,    \* the two coordinates
    unit, radius,   \* the DistanceUnit and the radius passed
    distance_ret,   \* what get_distance_from returned
    in_radius_ret,  \* what in_radius returned
    \* CoordinateBoundaries
    cb,             \* "absent" (not constructed), "None", "Some"
    call,           \* the last call on CoordinateBoundaries and its arguments
    latitude, longitude, distance, distance_unit,
    max_lon, min_lon, max_lat, min_lat

newVars == <<pc, lat, lon, neg_pos_bound, wrapped, coord>>
distVars == <<op, self, other, unit, radius, distance_ret, in_radius_ret>>
boundsVars == <<cb, call, latitude, longitude, distance, distance_unit,
                max_lon, min_lon, max_lat, min_lat>>
vars == <<newVars, distVars, boundsVars>>

(***************************************************************************)
(* Bounds of the model.                                                    *)
(***************************************************************************)
\* significand bits of the modelled floating-point format (f64: 53)
MantBits == 10
\* iterations the operator form of wrap_to_bounds unrolls before giving up
WrapFuel == 128

(***************************************************************************)
(* f64 arithmetic on whole numbers, MantBits significand bits.             *)
(***************************************************************************)
Abs(x) == IF x < 0 THEN -x ELSE x

Sign(x) == IF x < 0 THEN -1 ELSE 1

RECURSIVE UlpFrom(_, _)
UlpFrom(a, u) == IF a < u * 2^MantBits THEN u ELSE UlpFrom(a, 2 * u)

\* spacing of the representable numbers around magnitude a
Ulp(a) == UlpFrom(a, 1)

\* round to nearest representable, ties to even
Round(x) ==
    LET a == Abs(x)
        u == Ulp(a)
        q == a \div u
        r == a % u
        m == IF 2 * r < u THEN q
             ELSE IF 2 * r > u THEN q + 1
             ELSE IF q % 2 = 0 THEN q ELSE q + 1
    IN  Sign(x) * m * u

FAdd(x, y) == Round(x + y)

FSub(x, y) == Round(x - y)

FMul(x, y) == Round(x * y)

(***************************************************************************)
(* utils.rs: wrap_to_bounds                                                *)
(***************************************************************************)
abs_neg_pos(b) == Abs(b)

add_or_sub(b) == FMul(b, 2)

\* variant: the loop condition with the lower boundary included, as the
\* first branch of the body has it
LoopCond_inclusive(w, b) == w <= -abs_neg_pos(b) \/ w > abs_neg_pos(b)

\* the condition of the while loop
LoopCond(w, b) == w < -abs_neg_pos(b) \/ w > abs_neg_pos(b)

\* which branch of the loop body a value takes: "add", "sub" or "none"
LoopBranch(w, b) ==
    IF w <= -abs_neg_pos(b) THEN "add"
    ELSE IF w > abs_neg_pos(b) THEN "sub"
    ELSE "none"

\* variant: saturation at the boundary instead of a shift by 2*bound
LoopBody_clamp(w, b) ==
    IF w <= -abs_neg_pos(b) THEN -abs_neg_pos(b)
    ELSE IF w > abs_neg_pos(b) THEN abs_neg_pos(b)
    ELSE w

\* one execution of the loop body
LoopBody(w, b) ==
    IF w <= -abs_neg_pos(b) THEN FSub(w, FMul(add_or_sub(b), -1))
    ELSE IF w > abs_neg_pos(b) THEN FAdd(w, FMul(add_or_sub(b), -1))
    ELSE w

\* the loop run for at most `fuel` iterations; returns = FALSE when it has
\* not left the loop by then
RECURSIVE wrap_loop(_, _, _)
wrap_loop(w, b, fuel) ==
    IF ~LoopCond(w, b) THEN [returns |-> TRUE, value |-> w]
    ELSE IF fuel = 0 THEN [returns |-> FALSE, value |-> w]
    ELSE wrap_loop(LoopBody(w, b), b, fuel - 1)

wrap_to_bounds(input, b) == wrap_loop(input, b, WrapFuel)

(***************************************************************************)
(* coordinate.rs: Coordinate::new                                          *)
(***************************************************************************)
LAT_BOUND == 90
LON_BOUND == 180

\* magnitudes at which the loop's subtraction of 2*bound stops being exact:
\* the spacing of the floats exceeds the largest power of two dividing
\* 2*bound (4 for 180, 8 for 360)
InexactFrom(b) == IF b = LAT_BOUND THEN 2^(MantBits + 2) ELSE 2^(MantBits + 3)

\* magnitudes at which 2*bound is less than half the spacing of the floats,
\* so that subtracting it changes nothing
AbsorbedFrom(b) == IF b = LAT_BOUND THEN 2^(MantBits + 8) ELSE 2^(MantBits + 9)

LatInputs ==
    {-270, -181, -91, -90, -89, 0, 45, 89, 90, 91, 120, 179, 181, 270, 450,
     2^MantBits - 1,
     InexactFrom(LAT_BOUND) + 2^(MantBits + 1),
     -(InexactFrom(LAT_BOUND) + 2^(MantBits + 1)),
     AbsorbedFrom(LAT_BOUND) + 2^(MantBits + 7)}

LonInputs ==
    {-540, -181, -180, -179, 0, 179, 180, 181, 540,
     InexactFrom(LON_BOUND) + 2^(MantBits + 2),
     -(AbsorbedFrom(LON_BOUND) + 2^(MantBits + 8))}

InitNew ==
    /\ pc = "start"
    /\ lat = 0
    /\ lon = 0
    /\ neg_pos_bound = LAT_BOUND
    /\ wrapped = 0
    /\ coord = [latitude |-> 0, longitude |-> 0]

\* Coordinate::new(lat, lon) is called; the first field initialiser enters
\* wrap_to_bounds(lat, 90.0)
NewCall(la, lo) ==
    /\ pc = "start"
    /\ lat' = la
    /\ lon' = lo
    /\ neg_pos_bound' = LAT_BOUND
    /\ wrapped' = la
    /\ pc' = "wrap_lat"
    /\ UNCHANGED <<coord, distVars, boundsVars>>

\* one iteration of the while loop of wrap_to_bounds
WrapIter ==
    /\ pc \in {"wrap_lat", "wrap_lon"}
    /\ LoopCond(wrapped, neg_pos_bound)
    /\ wrapped' = LoopBody(wrapped, neg_pos_bound)
    /\ UNCHANGED <<pc, lat, lon, neg_pos_bound, coord, distVars, boundsVars>>

\* wrap_to_bounds(lat, 90.0) returns; wrap_to_bounds(lon, 180.0) is entered
ReturnLat ==
    /\ pc = "wrap_lat"
    /\ ~LoopCond(wrapped, neg_pos_bound)
    /\ coord' = [coord EXCEPT !.latitude = wrapped]
    /\ neg_pos_bound' = LON_BOUND
    /\ wrapped' = lon
    /\ pc' = "wrap_lon"
    /\ UNCHANGED <<lat, lon, distVars, boundsVars>>

\* wrap_to_bounds(lon, 180.0) returns and Coordinate::new returns the struct
ReturnLon ==
    /\ pc = "wrap_lon"
    /\ ~LoopCond(wrapped, neg_pos_bound)
    /\ coord' = [coord EXCEPT !.longitude = wrapped]
    /\ pc' = "done"
    /\ UNCHANGED <<lat, lon, neg_pos_bound, wrapped, distVars, boundsVars>>

(***************************************************************************)
(* Fixed-point arithmetic and trigonometry                                 *)
(***************************************************************************)
\* f64 division is symmetric in the sign of its operands: truncate
TruncDiv(a, b) == Sign(a) * Sign(b) * (Abs(a) \div Abs(b))

\* nearest quotient, symmetric in sign
RoundDiv(a, b) == Sign(a) * Sign(b) * ((2 * Abs(a) + Abs(b)) \div (2 * Abs(b)))

\* scale of the sine table
SinScale == 10^4

\* SinScale * sin(k degrees), k = 0..90, at index k + 1
SinTab ==
    <<0, 175, 349, 523, 698, 872, 1045, 1219, 1392, 1564, 1736, 1908, 2079,
      2250, 2419, 2588, 2756, 2924, 3090, 3256, 3420, 3584, 3746, 3907, 4067,
      4226, 4384, 4540, 4695, 4848, 5000, 5150, 5299, 5446, 5592, 5736, 5878,
      6018, 6157, 6293, 6428, 6561, 6691, 6820, 6947, 7071, 7193, 7314, 7431,
      7547, 7660, 7771, 7880, 7986, 8090, 8192, 8290, 8387, 8480, 8572, 8660,
      8746, 8829, 8910, 8988, 9063, 9135, 9205, 9272, 9336, 9397, 9455, 9511,
      9563, 9613, 9659, 9703, 9744, 9781, 9816, 9848, 9877, 9903, 9925, 9945,
      9962, 9976, 9986, 9994, 9998, 10000>>

\* SinScale * sin of a whole number of degrees
SinDeg(d) ==
    LET m == d % 360
    IN  IF m <= 90 THEN SinTab[m + 1]
        ELSE IF m <= 180 THEN SinTab[180 - m + 1]
        ELSE IF m <= 270 THEN -SinTab[m - 180 + 1]
        ELSE -SinTab[360 - m + 1]

\* pi in millionths: angles in radians are carried in microradians
PI_MICRO == 3141593

\* degrees * pi / 180.0
ToRadians(deg) == TruncDiv(deg * PI_MICRO, 180)

\* f64::sin and f64::cos of an angle in microradians, read from the table
\* at the nearest whole degree
Sin(x) == SinDeg(RoundDiv(x * 180, PI_MICRO))

Cos(x) == SinDeg(RoundDiv(x * 180, PI_MICRO) + 90)

\* asin(sqrt(a)) in microradians for a scaled by SinScale^2: the largest
\* table angle whose squared sine does not exceed a
AsinSqrt(a) ==
    LET k == CHOOSE j \in 0..90 :
                 /\ SinTab[j + 1] * SinTab[j + 1] <= a
                 /\ (j = 90 \/ SinTab[j + 2] * SinTab[j + 2] > a)
    IN  ToRadians(k)

(***************************************************************************)
(* distance_unit.rs and utils.rs: DistanceUnit and the conversion tables   *)
(***************************************************************************)
DistanceUnit == {"Miles", "NauticalMiles", "Kilometers", "Meters"}

\* latitude divisors, in thousandths (111.045 is not a whole number)
LATITUDE_DISTANCE_IN_MILES == 69000
LATITUDE_DISTANCE_IN_NAUTICAL_MILES == 60000
LATITUDE_DISTANCE_IN_KILOMETERS == 111045
LATITUDE_DISTANCE_IN_METERS == 111045000

LINEAR_DISTANCE_IN_MILES == 1609
LINEAR_DISTANCE_IN_NAUTICAL_MILES == 1852
LINEAR_DISTANCE_IN_KILOMETERS == 1000
LINEAR_DISTANCE_IN_METERS == 1
EARTH_RADIUS_KM == 6371

divisor(u) ==
    CASE u = "Miles" -> LATITUDE_DISTANCE_IN_MILES
      [] u = "NauticalMiles" -> LATITUDE_DISTANCE_IN_NAUTICAL_MILES
      [] u = "Kilometers" -> LATITUDE_DISTANCE_IN_KILOMETERS
      [] u = "Meters" -> LATITUDE_DISTANCE_IN_METERS

linear_divisor(u) ==
    CASE u = "Miles" -> LINEAR_DISTANCE_IN_MILES
      [] u = "NauticalMiles" -> LINEAR_DISTANCE_IN_NAUTICAL_MILES
      [] u = "Kilometers" -> LINEAR_DISTANCE_IN_KILOMETERS
      [] u = "Meters" -> LINEAR_DISTANCE_IN_METERS

(***************************************************************************)
(* coordinate.rs: get_distance_from and in_radius.  Distances are whole    *)
(* numbers of the unit asked for.                                          *)
(***************************************************************************)
\* variant: the cosine of the first latitude used for both points
haversine_a_one_sided(lat1, lat2, lon1, lon2) ==
    LET d_lon == lon2 - lon1
        d_lat == lat2 - lat1
        s_lat == Sin(TruncDiv(d_lat, 2))
        s_lon == Sin(TruncDiv(d_lon, 2))
    IN  s_lat * s_lat
          + TruncDiv(Cos(lat1) * Cos(lat1), SinScale)
              * TruncDiv(s_lon * s_lon, SinScale)

\* the haversine term `a`, scaled by SinScale^2; arguments in microradians
haversine_a(lat1, lat2, lon1, lon2) ==
    LET d_lon == lon2 - lon1
        d_lat == lat2 - lat1
        s_lat == Sin(TruncDiv(d_lat, 2))
        s_lon == Sin(TruncDiv(d_lon, 2))
    IN  s_lat * s_lat
          + TruncDiv(Cos(lat1) * Cos(lat2), SinScale)
              * TruncDiv(s_lon * s_lon, SinScale)

get_distance_from(this, that, u) ==
    LET lat1 == ToRadians(this.latitude)
        lat2 == ToRadians(that.latitude)
        lon1 == ToRadians(this.longitude)
        lon2 == ToRadians(that.longitude)
        a == haversine_a(lat1, lat2, lon1, lon2)
        c == 2 * AsinSqrt(a)
        \* c is in microradians: (c / 1000) * km is metres, / 1000 again is km
        distance_km == TruncDiv(TruncDiv(c, 1000) * EARTH_RADIUS_KM, 1000)
        distance_meters == distance_km * linear_divisor("Kilometers")
    IN  TruncDiv(distance_meters, linear_divisor(u))

in_radius(this, other_coordinate, r, distance_unit_) ==
    LET d == get_distance_from(this, other_coordinate, distance_unit_)
        scaled == r * linear_divisor(distance_unit_)
    IN  d <= scaled

\* coordinates the two queries are tried on (all in range); one query per
\* behaviour
Coords ==
    {[latitude |-> p[1], longitude |-> p[2]] :
        p \in {<<0, 0>>, <<0, 2>>, <<2, 2>>, <<60, -120>>, <<-60, 60>>,
               <<90, 0>>, <<-90, 0>>, <<0, 180>>, <<0, -180>>}}

Radii == {0, 1, 150, 10000, 1000000}

InitDist ==
    /\ op = "none"
    /\ self = [latitude |-> 0, longitude |-> 0]
    /\ other = [latitude |-> 0, longitude |-> 0]
    /\ unit = "Miles"
    /\ radius = 0
    /\ distance_ret = 0
    /\ in_radius_ret = FALSE

GetDistanceFrom(a, b, u) ==
    /\ op = "none"
    /\ op' = "get_distance_from"
    /\ self' = a
    /\ other' = b
    /\ unit' = u
    /\ distance_ret' = get_distance_from(a, b, u)
    /\ UNCHANGED <<radius, in_radius_ret, newVars, boundsVars>>

InRadius(a, b, r, u) ==
    /\ op = "none"
    /\ op' = "in_radius"
    /\ self' = a
    /\ other' = b
    /\ unit' = u
    /\ radius' = r
    /\ in_radius_ret' = in_radius(a, b, r, u)
    /\ UNCHANGED <<distance_ret, newVars, boundsVars>>

(***************************************************************************)
(* coordinate_boundaries.rs: CoordinateBoundaries.  The origin is in whole *)
(* degrees, the distance in whole units, the four bounds in thousandths of *)
(* a degree.                                                               *)
(***************************************************************************)
\* thousandths of a degree per degree
MilliPerDeg == 10^3

\* what a nonzero quotient by |cos(90 degrees)| is carried as: the f64
\* cosine there is 6.1e-17, not 0, so the quotient is finite and huge
PoleQuotient == 10^9

\* variant: the range check with the boundary values excluded
validate_strict(c) ==
    IF c.latitude <= -90 \/ c.latitude >= 90 THEN FALSE
    ELSE IF c.longitude <= -180 \/ c.longitude >= 180 THEN FALSE
    ELSE TRUE

validate(c) ==
    IF c.latitude < -90 \/ c.latitude > 90 THEN FALSE
    ELSE IF c.longitude < -180 \/ c.longitude > 180 THEN FALSE
    ELSE TRUE

\* distance / divisor, in thousandths of a degree
latitude_conversion_factor(u, d) == TruncDiv(d * MilliPerDeg * 10^3, divisor(u))

\* lat.to_radians().cos().abs(), scaled by SinScale
cos_abs(la) == Abs(Cos(ToRadians(la)))

\* distance / divisor / lat.to_radians().cos().abs()
longitude_conversion_factor(u, d, la) ==
    LET f == latitude_conversion_factor(u, d)
        c == cos_abs(la)
    IN  IF c = 0 THEN (IF f = 0 THEN 0 ELSE Sign(f) * PoleQuotient)
        ELSE TruncDiv(f * SinScale, c)

\* (min_lat, max_lat, min_lon, max_lon)
calculate(u, d, la, lo) ==
    <<la * MilliPerDeg - latitude_conversion_factor(u, d),
      la * MilliPerDeg + latitude_conversion_factor(u, d),
      lo * MilliPerDeg - longitude_conversion_factor(u, d, la),
      lo * MilliPerDeg + longitude_conversion_factor(u, d, la)>>

\* unit.unwrap_or(DistanceUnit::Miles) in new
new_unit(u) == IF u = "None" THEN "Miles" ELSE u

\* variant: an omitted unit keeps the unit stored before
set_distance_unit_keep(u) == IF u = "None" THEN distance_unit ELSE u

\* unit.unwrap_or(DistanceUnit::Miles) in set_distance
set_distance_unit(u) == IF u = "None" THEN "Miles" ELSE u

\* variant: the bounds computed from the origin stored before the call
set_coords_bounds_stale(coords) ==
    calculate(distance_unit, distance, latitude, longitude)

\* the bounds set_coords stores
set_coords_bounds(coords) ==
    calculate(distance_unit, distance, coords.latitude, coords.longitude)

\* origins tried: Coordinate's fields are public, so out-of-range ones exist
Origins ==
    {[latitude |-> la, longitude |-> lo] :
        la \in {-91, -90, 0, 60, 90, 91}, lo \in {-181, -180, 0, 30, 180, 181}}

Distances == {0, 1, 12, 100}

OptUnits == DistanceUnit \cup {"None"}

InitBounds ==
    /\ cb = "absent"
    /\ latitude = 0
    /\ longitude = 0
    /\ distance = 0
    /\ distance_unit = "Miles"
    /\ max_lon = 0
    /\ min_lon = 0
    /\ max_lat = 0
    /\ min_lat = 0
    /\ call = [name |-> "none"]

\* CoordinateBoundaries::new(origin, distance, unit)
New(origin, d, u) ==
    /\ cb = "absent"
    /\ call' = [name |-> "new", origin |-> origin, distance |-> d, unit |-> u]
    /\ IF ~validate(origin)
       THEN /\ cb' = "None"
            /\ UNCHANGED <<latitude, longitude, distance, distance_unit,
                           max_lon, min_lon, max_lat, min_lat>>
       ELSE LET b == calculate(new_unit(u), d, origin.latitude, origin.longitude)
            IN  /\ cb' = "Some"
                /\ distance' = d
                /\ distance_unit' = new_unit(u)
                /\ latitude' = origin.latitude
                /\ longitude' = origin.longitude
                /\ min_lat' = b[1]
                /\ max_lat' = b[2]
                /\ min_lon' = b[3]
                /\ max_lon' = b[4]
    /\ UNCHANGED <<newVars, distVars>>

\* CoordinateBoundaries::set_coords(coords)
SetCoords(coords) ==
    /\ cb = "Some"
    /\ call' = [name |-> "set_coords", coords |-> coords]
    /\ latitude' = coords.latitude
    /\ longitude' = coords.longitude
    /\ LET b == set_coords_bounds(coords)
       IN  /\ min_lat' = b[1]
           /\ max_lat' = b[2]
           /\ min_lon' = b[3]
           /\ max_lon' = b[4]
    /\ UNCHANGED <<cb, distance, distance_unit, newVars, distVars>>

\* CoordinateBoundaries::set_distance(distance, unit)
SetDistance(d, u) ==
    /\ cb = "Some"
    /\ call' = [name |-> "set_distance", distance |-> d, unit |-> u]
    /\ distance' = d
    /\ distance_unit' = set_distance_unit(u)
    /\ LET b == calculate(set_distance_unit(u), d, latitude, longitude)
       IN  /\ min_lat' = b[1]
           /\ max_lat' = b[2]
           /\ min_lon' = b[3]
           /\ max_lon' = b[4]
    /\ UNCHANGED <<cb, latitude, longitude, newVars, distVars>>

(***************************************************************************)
(* Specifications                                                          *)
(***************************************************************************)
Init == InitNew /\ InitDist /\ InitBounds

NextNew ==
    \/ \E la \in LatInputs, lo \in LonInputs : NewCall(la, lo)
    \/ WrapIter
    \/ ReturnLat
    \/ ReturnLon

SpecNew == Init /\ [][NextNew]_vars

\* the loop runs on its own thread of control: an enabled step is taken
FairSpecNew == SpecNew /\ WF_vars(NextNew)

NextDist ==
    \/ \E a \in Coords, b \in Coords, u \in DistanceUnit : GetDistanceFrom(a, b, u)
    \/ \E a \in Coords, b \in Coords, r \in Radii, u \in DistanceUnit :
          InRadius(a, b, r, u)

SpecDist == Init /\ [][NextDist]_vars

NextBounds ==
    \/ \E o \in Origins, d \in Distances, u \in OptUnits : New(o, d, u)
    \/ \E c \in Origins : SetCoords(c)
    \/ \E d \in Distances, u \in OptUnits : SetDistance(d, u)

SpecBounds == Init /\ [][NextBounds]_vars

Next == NextNew \/ NextDist \/ NextBounds

(***************************************************************************)
(* Properties                                                              *)
(***************************************************************************)
\* C1: in_radius(other, radius, unit) is true exactly when
\* get_distance_from(other, unit) <= radius, the radius taken as given in
\* the unit of the distance.
C1_InRadiusIsDistanceWithinRadius ==
    op = "in_radius" =>
        (in_radius_ret <=> (get_distance_from(self, other, unit) <= radius))

\* C2: whenever a CoordinateBoundaries exists, its four cached bounds are
\* the ones its stored origin, distance and unit give: latitude -/+
\* distance/divisor(unit) and longitude -/+ distance/divisor(unit)/|cos(latitude)|.
C2_BoundsAgreeWithInputs ==
    cb = "Some" =>
        LET lat_delta == TruncDiv(distance * MilliPerDeg * 10^3, divisor(distance_unit))
            c == Abs(Cos(ToRadians(latitude)))
            lon_delta == IF c = 0
                         THEN (IF lat_delta = 0 THEN 0 ELSE Sign(lat_delta) * PoleQuotient)
                         ELSE TruncDiv(lat_delta * SinScale, c)
        IN  /\ min_lat = latitude * MilliPerDeg - lat_delta
            /\ max_lat = latitude * MilliPerDeg + lat_delta
            /\ min_lon = longitude * MilliPerDeg - lon_delta
            /\ max_lon = longitude * MilliPerDeg + lon_delta

\* C2 witness: both setters have acted (91 degrees can only come from
\* set_coords) and the bounds are not degenerate.
C2_Witness ==
    /\ cb = "Some"
    /\ call.name = "set_distance"
    /\ latitude = 91
    /\ distance = 100
    /\ distance_unit = "Kilometers"
    /\ min_lat < max_lat

\* C3: new returns None exactly when the origin's latitude is below -90 or
\* above 90 or its longitude is below -180 or above 180, whatever the
\* distance and the unit; every other origin, the four boundary values
\* included, gives Some.
C3_NewNoneIffOutOfRange ==
    call.name = "new" =>
        /\ cb \in {"None", "Some"}
        /\ cb = "None" <=>
              \/ call.origin.latitude < -90
              \/ call.origin.latitude > 90
              \/ call.origin.longitude < -180
              \/ call.origin.longitude > 180

\* C3 witness: new was called with the origin (91, 0) and returned None.
C3_Witness ==
    /\ call.name = "new"
    /\ call.origin = [latitude |-> 91, longitude |-> 0]
    /\ cb = "None"

\* C4: a step of set_distance(d, u) leaves the origin alone, stores d and
\* the unit u (Miles when u is omitted, whatever the unit was before), and
\* stores the bounds computed from the origin, d and that unit.
C4_SetDistanceResetsUnit ==
    [][call'.name = "set_distance" =>
          /\ latitude' = latitude
          /\ longitude' = longitude
          /\ distance' = call'.distance
          /\ distance_unit' = (IF call'.unit = "None" THEN "Miles" ELSE call'.unit)
          /\ <<min_lat', max_lat', min_lon', max_lon'>>
                = calculate(distance_unit', call'.distance, latitude, longitude)
      ]_vars

\* C4 witness: set_distance was called without a unit on an object whose
\* bounds are not degenerate.
C4_Witness ==
    /\ call.name = "set_distance"
    /\ call.unit = "None"
    /\ call.distance = 12
    /\ latitude = 60
    /\ distance_unit = "Miles"
    /\ min_lon < max_lon

\* C5: the origin stored in a CoordinateBoundaries always satisfies the
\* range check of new: latitude in [-90, 90] and longitude in [-180, 180].
C5_OriginStaysLegal ==
    cb = "Some" =>
        /\ -90 <= latitude /\ latitude <= 90
        /\ -180 <= longitude /\ longitude <= 180

\* C6: the Coordinate returned by Coordinate::new(lat, lon) has its
\* latitude in [-90, 90] and its longitude in [-180, 180], the latitude
\* differing from lat by a multiple of 180 and the longitude from lon by a
\* multiple of 360.
C6_NewWrapsIntoRange ==
    pc = "done" =>
        /\ -90 <= coord.latitude /\ coord.latitude <= 90
        /\ -180 <= coord.longitude /\ coord.longitude <= 180
        /\ (coord.latitude - lat) % 180 = 0
        /\ (coord.longitude - lon) % 360 = 0

\* the input of the finished wrap_to_bounds calls and what they returned
LatWrapped == pc \in {"wrap_lon", "done"}

LonWrapped == pc = "done"

\* every subtraction or addition of 2*bound the loop makes on x is exact
ExactInput(x, b) == Abs(x) < InexactFrom(b)

\* wrap_to_bounds(x, b) = wrap_to_bounds(x + 2b, b), r being the former
Periodic(x, b, r) ==
    LET shifted == wrap_to_bounds(FAdd(x, 2 * b), b)
    IN  shifted.returns /\ shifted.value = r

\* C7 as stated: wrap_to_bounds(x, b) = wrap_to_bounds(x + 2b, b) for
\* every x, the boundaries -b and +b included.
C7_PeriodicEverywhere ==
    /\ LatWrapped => Periodic(lat, LAT_BOUND, coord.latitude)
    /\ LonWrapped => Periodic(lon, LON_BOUND, coord.longitude)

\* x + 2b is computed without rounding and stays where the loop is exact
ExactShift(x, b) ==
    /\ ExactInput(x, b)
    /\ FAdd(x, 2 * b) = x + 2 * b
    /\ ExactInput(x + 2 * b, b)

\* C7 amended: wrap_to_bounds(x, b) = wrap_to_bounds(x + 2b, b) for every
\* x other than -b, where x + 2b and the loop's arithmetic are exact.
C7_PeriodicExceptLowerBoundary ==
    /\ LatWrapped /\ lat # -LAT_BOUND /\ ExactShift(lat, LAT_BOUND)
          => Periodic(lat, LAT_BOUND, coord.latitude)
    /\ LonWrapped /\ lon # -LON_BOUND /\ ExactShift(lon, LON_BOUND)
          => Periodic(lon, LON_BOUND, coord.longitude)

\* C7 witness: an input above the upper boundary was wrapped through the
\* loop and a boundary input (+180) was wrapped too.
C7_Witness ==
    /\ pc = "done"
    /\ lat = 91
    /\ coord.latitude = -89
    /\ lon = LON_BOUND
    /\ coord.longitude = LON_BOUND

\* the cases of test_wrap_to_bounds
TestCases(x, b, r) ==
    /\ (x = 181 /\ b = 90) => r = 1
    /\ (x = 91 /\ b = 90) => r = -89
    /\ (x = 181 /\ b = 180) => r = -179
    /\ (x = 120 /\ b = 90) => r = -60
    /\ (x = -91 /\ b = 90) => r = 89
    /\ (x = -90 /\ b = 90) => r = -90
    /\ (x = 179 /\ b = 90) => r = -1

\* the result r of wrap_to_bounds(x, b) as C9 states it
RepresentativeAsStated(x, b, r) ==
    /\ (r - x) % (2 * b) = 0
    /\ -b <= r /\ r <= b
    /\ x = -b => r = -b
    /\ x # -b => r > -b
    /\ TestCases(x, b, r)

\* C9 as stated: wrap_to_bounds(x, b) is the representative of x modulo 2b
\* in (-b, b], except that x = -b gives -b; every other input, -3b
\* included, gives a result above -b.
C9_RepresentativeHalfOpen ==
    /\ LatWrapped => RepresentativeAsStated(lat, LAT_BOUND, coord.latitude)
    /\ LonWrapped => RepresentativeAsStated(lon, LON_BOUND, coord.longitude)

\* the result r of wrap_to_bounds(x, b) as the loop gives it
RepresentativeClosed(x, b, r) ==
    /\ (r - x) % (2 * b) = 0
    /\ -b <= r /\ r <= b
    /\ r = -b <=> (x <= -b /\ (x + b) % (2 * b) = 0)
    /\ TestCases(x, b, r)

\* C9 amended: where the loop's arithmetic is exact, wrap_to_bounds(x, b)
\* is a representative of x modulo 2b in [-b, b]; it is -b exactly for the
\* inputs -b, -3b, -5b, ... and lies in (-b, b] for every other input.
C9_RepresentativeClosedInterval ==
    /\ LatWrapped /\ ExactInput(lat, LAT_BOUND)
          => RepresentativeClosed(lat, LAT_BOUND, coord.latitude)
    /\ LonWrapped /\ ExactInput(lon, LON_BOUND)
          => RepresentativeClosed(lon, LON_BOUND, coord.longitude)

\* C9 witness: -3 * 90 was wrapped to -90 and -3 * 180 to -180.
C9_Witness ==
    /\ pc = "done"
    /\ lat = -270
    /\ coord.latitude = -90
    /\ lon = -540
    /\ coord.longitude = -180

\* C8: get_distance_from is symmetric in its two coordinates.
C8_DistanceSymmetric ==
    op = "get_distance_from" =>
        distance_ret = get_distance_from(other, self, unit)

\* C8 witness: a distance between two points of different latitude and
\* longitude was computed and is not zero.
C8_Witness ==
    /\ op = "get_distance_from"
    /\ self.latitude # other.latitude
    /\ self.longitude # other.longitude
    /\ distance_ret > 0

\* C10: the loop of wrap_to_bounds terminates on every input: each call of
\* Coordinate::new that has started returns.
C10_LoopTerminates == (pc # "start") ~> (pc = "done")

\* Where the loop's arithmetic is exact, a value that satisfies the loop
\* condition takes exactly one branch, which moves it by 2*bound towards
\* [-bound, bound] without passing the opposite boundary.
ExactLoopStep ==
    LET b == neg_pos_bound
        x == IF pc = "wrap_lat" THEN lat ELSE lon
        next == LoopBody(wrapped, b)
    IN  (pc \in {"wrap_lat", "wrap_lon"} /\ ExactInput(x, b) /\ LoopCond(wrapped, b)) =>
            /\ LoopBranch(wrapped, b) \in {"add", "sub"}
            /\ LoopBranch(wrapped, b) = "add" => (next = wrapped + 2 * b /\ next < b)
            /\ LoopBranch(wrapped, b) = "sub" => (next = wrapped - 2 * b /\ next > -b)

\* Where the loop's arithmetic is exact for both arguments, a call of
\* Coordinate::new that has started returns.
ExactLoopTerminates ==
    (pc # "start" /\ ExactInput(lat, LAT_BOUND) /\ ExactInput(lon, LON_BOUND))
        ~> (pc = "done")

====
